---- MODULE Spec2Model ----
(***************************************************************************)
(* Model of the four components of the prescription verifier:              *)
(* DrugInteractionAnalyzer (the drug list, the add-drug form, the pairwise *)
(* interaction matcher over the static rule table, the delayed completion  *)
(* of an analysis), DosageCalculator, AlternativeSuggestions and           *)
(* NLPAnalyzer.  Each sits in its own tab; a specification drives one of   *)
(* them and leaves the others as constructed.                              *)
(*                                                                         *)
(* Strings whose content the code inspects (drug names, ids, numbers in    *)
(* form fields, texts) are sequences of one-character strings, so that     *)
(* trim, toLowerCase, toString, parseInt and the regular expressions are   *)
(* computed; strings the code only copies are TLA+ strings.                *)
(***************************************************************************)
EXTENDS Integers, Sequences, FiniteSets, TLC

\* ------------------------------------------------------------------ bounds
MaxDrugs == 3
MaxClock == 1
MaxList == 4

\* ------------------------------------------------------- string primitives
UpperAlpha ==
  <<"A","B","C","D","E","F","G","H","I","J","K","L","M",
    "N","O","P","Q","R","S","T","U","V","W","X","Y","Z">>

LowerAlpha ==
  <<"a","b","c","d","e","f","g","h","i","j","k","l","m",
    "n","o","p","q","r","s","t","u","v","w","x","y","z">>

WhiteSpace == {" ", "\t", "\n"}

toLowerCaseChar(c) ==
  IF \E k \in 1..Len(UpperAlpha) : UpperAlpha[k] = c
    THEN LowerAlpha[CHOOSE k \in 1..Len(UpperAlpha) : UpperAlpha[k] = c]
    ELSE c

toLowerCase(s) == [k \in 1..Len(s) |-> toLowerCaseChar(s[k])]

RECURSIVE trimStart(_)
trimStart(s) ==
  IF s # <<>> /\ Head(s) \in WhiteSpace THEN trimStart(Tail(s)) ELSE s

RECURSIVE trimEnd(_)
trimEnd(s) ==
  IF s # <<>> /\ s[Len(s)] \in WhiteSpace
    THEN trimEnd(SubSeq(s, 1, Len(s) - 1))
    ELSE s

trim(s) == trimEnd(trimStart(s))

Digits == <<"0","1","2","3","4","5","6","7","8","9">>

RECURSIVE toString(_)
toString(n) ==
  IF n < 10 THEN <<Digits[n + 1]>>
            ELSE Append(toString(n \div 10), Digits[(n % 10) + 1])

includes(arr, x) == \E k \in 1..Len(arr) : arr[k] = x

\* ------------------------------------------------------------- drug names
warfarin   == <<"w","a","r","f","a","r","i","n">>
aspirin    == <<"a","s","p","i","r","i","n">>
lisinopril == <<"l","i","s","i","n","o","p","r","i","l">>
potassium  == <<"p","o","t","a","s","s","i","u","m">>
metformin  == <<"m","e","t","f","o","r","m","i","n">>
iodine     == <<"i","o","d","i","n","e">>

\* ------------------------------------------------------------- rule table
mockInteractions ==
  << [drugs |-> <<warfarin, aspirin>>,
      severity |-> "high",
      description |-> "Increased risk of bleeding when used together",
      recommendation |->
        "Monitor INR levels closely and consider alternative anticoagulation"],
     [drugs |-> <<lisinopril, potassium>>,
      severity |-> "moderate",
      description |-> "May cause hyperkalemia (elevated potassium levels)",
      recommendation |-> "Monitor serum potassium levels regularly"],
     [drugs |-> <<metformin, iodine>>,
      severity |-> "moderate",
      description |-> "Contrast agents may increase risk of lactic acidosis",
      recommendation |->
        "Temporarily discontinue metformin before procedures with contrast"] >>

\* ---------------------------------------------------------------- matcher
\* The rule mockInteractions.find(...) returns for a pair of case-folded
\* names: the first rule whose drugs array includes both; 0 when find
\* returns undefined.
\* Variant: a rule matches only with its drugs in the order of the list.
findInteraction_ordered(drug1, drug2) ==
  LET hits == { k \in 1..Len(mockInteractions) :
                  /\ mockInteractions[k].drugs[1] = drug1
                  /\ mockInteractions[k].drugs[2] = drug2 }
  IN IF hits = {} THEN 0
     ELSE CHOOSE k \in hits : \A m \in hits : k <= m

\* Variant: a rule matches as soon as it includes one of the two names.
findInteraction_either(drug1, drug2) ==
  LET hits == { k \in 1..Len(mockInteractions) :
                  \/ includes(mockInteractions[k].drugs, drug1)
                  \/ includes(mockInteractions[k].drugs, drug2) }
  IN IF hits = {} THEN 0
     ELSE CHOOSE k \in hits : \A m \in hits : k <= m

findInteraction(drug1, drug2) ==
  LET hits == { k \in 1..Len(mockInteractions) :
                  /\ includes(mockInteractions[k].drugs, drug1)
                  /\ includes(mockInteractions[k].drugs, drug2) }
  IN IF hits = {} THEN 0
     ELSE CHOOSE k \in hits : \A m \in hits : k <= m

\* The record pushed for positions i, j and the rule found for them.
Finding(list, i, j, interaction) ==
  [drug1 |-> list[i].name,
   drug2 |-> list[j].name,
   severity |-> interaction.severity,
   description |-> interaction.description,
   recommendation |-> interaction.recommendation]

\* Body of the inner loop for one (i, j).  acc.found is foundInteractions;
\* acc.at records, for each push, the positions it was pushed for.
\* Variant: the finding is put in front of the earlier ones (unshift).
checkPair_unshift(list, i, j, acc) ==
  LET drug1 == toLowerCase(list[i].name)
      drug2 == toLowerCase(list[j].name)
      k == findInteraction(drug1, drug2)
  IN IF k # 0
       THEN [found |-> <<Finding(list, i, j, mockInteractions[k])>>
                         \o acc.found,
             at |-> <<<<i, j>>>> \o acc.at]
       ELSE acc

checkPair(list, i, j, acc) ==
  LET drug1 == toLowerCase(list[i].name)
      drug2 == toLowerCase(list[j].name)
      k == findInteraction(drug1, drug2)
  IN IF k # 0
       THEN [found |-> Append(acc.found,
                              Finding(list, i, j, mockInteractions[k])),
             at |-> Append(acc.at, <<i, j>>)]
       ELSE acc

RECURSIVE innerLoop(_, _, _, _)
innerLoop(list, i, j, acc) ==
  IF j <= Len(list)
    THEN innerLoop(list, i, j + 1, checkPair(list, i, j, acc))
    ELSE acc

RECURSIVE outerLoop(_, _, _)
outerLoop(list, i, acc) ==
  IF i <= Len(list)
    THEN outerLoop(list, i + 1, innerLoop(list, i, i + 1, acc))
    ELSE acc

\* foundInteractions, and the positions of its pushes, for a drug list.
checkAllPairs(list) == outerLoop(list, 1, [found |-> <<>>, at |-> <<>>])

\* ------------------------------------------------------------------ inputs
\* Names typed into the drug-name field.  The field is empty after
\* construction and after every accepted addDrug, so the empty name needs
\* no entry here.
Blank    == <<" ">>
Warfarin == <<"W","a","r","f","a","r","i","n"," ">>
ASPIRIN  == <<"A","S","P","I","R","I","N">>
Iodine   == <<" ","I","o","d","i","n","e">>
ibuprofen == <<"i","b","u","p","r","o","f","e","n">>

TypedNames == {Blank, Warfarin, ASPIRIN, metformin}

\* What one user types in one session of the rendered component.
Vocabularies == { {Blank, Warfarin, ASPIRIN}, {Blank, Warfarin, metformin} }

\* Names of the entries the matcher is run on directly.
MatcherNames ==
  {Warfarin, ASPIRIN, metformin, Iodine, lisinopril, potassium, ibuprofen}

\* ------------------------------------------------------------------- state
VARIABLES
  drugs,         \* useState<Drug[]>
  newDrug,       \* useState({name, dosage, frequency})
  interactions,  \* useState<Interaction[]>
  isAnalyzing,   \* useState(false)
  pending,       \* analyses suspended at the await: the drugs each closed over
  toast,         \* title of the last toast raised ("" when none yet)
  now,           \* value Date.now() returns
  typable,       \* environment: the names the user of this session types
  entered,       \* history: entered[k] is the name typed for drugs[k]
  \* DosageCalculator
  patientData,   \* useState({age, weight, drugName, indication})
  dosageResult,  \* useState<DosageResult | null>
  isCalculating, \* useState(false)
  calcTimers,    \* setTimeout callbacks not yet run: what each closed over
  \* AlternativeSuggestions
  searchData,    \* useState({drugName, reason, patientAge, conditions})
  results,       \* useState<AlternativeResult | null>
  isSearching,   \* useState(false)
  searchAwaits,  \* searches suspended at the await: the searchData of each
  \* NLPAnalyzer
  inputText,     \* useState('')
  result,        \* useState<NLPResult | null>
  isProcessing,  \* useState(false)
  textAwaits     \* analyses suspended at the await: the text of each

\* The state of each component, the shared toast apart.
analyzerState == <<drugs, newDrug, interactions, isAnalyzing, pending, now,
                   typable, entered>>
calculatorState == <<patientData, dosageResult, isCalculating, calcTimers>>
alternativesState == <<searchData, results, isSearching, searchAwaits>>
nlpState == <<inputText, result, isProcessing, textAwaits>>

vars == <<analyzerState, toast, calculatorState, alternativesState, nlpState>>

\* A value that may be missing is a sequence: empty for null and undefined,
\* of the one value otherwise.
null == <<>>
undefined == <<>>
present(x) == <<x>>

\* The three other components as constructed.
emptyPatient == [age |-> <<>>, weight |-> <<>>, drugName |-> <<>>,
                 indication |-> ""]
emptySearch == [drugName |-> <<>>, reason |-> "", patientAge |-> "",
                conditions |-> ""]

calculatorMounted ==
  /\ patientData = emptyPatient
  /\ dosageResult = null
  /\ isCalculating = FALSE
  /\ calcTimers = <<>>

alternativesMounted ==
  /\ searchData = emptySearch
  /\ results = null
  /\ isSearching = FALSE
  /\ searchAwaits = <<>>

nlpMounted ==
  /\ inputText = <<>>
  /\ result = null
  /\ isProcessing = FALSE
  /\ textAwaits = <<>>

\* The tabs beside the interaction analyzer, none of them open.
otherTabs == <<calculatorState, alternativesState, nlpState>>

otherTabsMounted == calculatorMounted /\ alternativesMounted /\ nlpMounted

emptyForm == [name |-> <<>>, dosage |-> "", frequency |-> ""]

Init ==
  /\ drugs = <<>>
  /\ newDrug = emptyForm
  /\ interactions = <<>>
  /\ isAnalyzing = FALSE
  /\ pending = <<>>
  /\ toast = ""
  /\ now = 0
  /\ typable \in Vocabularies
  /\ entered = <<>>
  /\ otherTabsMounted

\* ---------------------------------------------------------------- handlers
onChangeName(v) ==
  /\ newDrug' = [newDrug EXCEPT !.name = v]
  /\ UNCHANGED <<drugs, interactions, isAnalyzing, pending, toast, now,
                 typable, entered>>

addDrugRejected ==
  /\ trim(newDrug.name) = <<>>
  /\ toast' = "Validation Error"
  /\ UNCHANGED <<drugs, newDrug, interactions, isAnalyzing, pending, now,
                 typable, entered>>

\* Variant: the name is stored as typed.
newDrugEntry_raw(form, t) ==
  [id |-> toString(t),
   name |-> form.name,
   dosage |-> form.dosage,
   frequency |-> form.frequency]

\* The Drug built from the form when Date.now() returns t.
newDrugEntry(form, t) ==
  [id |-> toString(t),
   name |-> toLowerCase(trim(form.name)),
   dosage |-> form.dosage,
   frequency |-> form.frequency]

\* Variant: the new entry is put in front of the list.
addDrugAccepted_prepend ==
  /\ trim(newDrug.name) # <<>>
  /\ Len(drugs) < MaxDrugs
  /\ drugs' = <<newDrugEntry(newDrug, now)>> \o drugs
  /\ entered' = <<newDrug.name>> \o entered
  /\ newDrug' = emptyForm
  /\ toast' = "Drug Added"
  /\ UNCHANGED <<interactions, isAnalyzing, pending, now, typable>>

\* Variant: adding a drug discards the findings on display.
addDrugAccepted_clears ==
  /\ trim(newDrug.name) # <<>>
  /\ Len(drugs) < MaxDrugs
  /\ drugs' = Append(drugs, newDrugEntry(newDrug, now))
  /\ entered' = Append(entered, newDrug.name)
  /\ newDrug' = emptyForm
  /\ interactions' = <<>>
  /\ toast' = "Drug Added"
  /\ UNCHANGED <<isAnalyzing, pending, now, typable>>

addDrugAccepted ==
  /\ trim(newDrug.name) # <<>>
  /\ Len(drugs) < MaxDrugs
  /\ drugs' = Append(drugs, newDrugEntry(newDrug, now))
  /\ entered' = Append(entered, newDrug.name)
  /\ newDrug' = emptyForm
  /\ toast' = "Drug Added"
  /\ UNCHANGED <<interactions, isAnalyzing, pending, now, typable>>

addDrug == addDrugRejected \/ addDrugAccepted

\* Positions of list kept by prev.filter(drug => drug.id !== id), in order.
RECURSIVE keptPositions(_, _, _)
keptPositions(list, id, k) ==
  IF k > Len(list) THEN <<>>
  ELSE IF list[k].id # id
         THEN <<k>> \o keptPositions(list, id, k + 1)
         ELSE keptPositions(list, id, k + 1)

\* Variant: the findings of the earlier analysis stay on display.
removeDrug_keepsFindings(id) ==
  /\ LET kept == keptPositions(drugs, id, 1)
     IN /\ drugs' = [k \in 1..Len(kept) |-> drugs[kept[k]]]
        /\ entered' = [k \in 1..Len(kept) |-> entered[kept[k]]]
  /\ UNCHANGED <<newDrug, interactions, isAnalyzing, pending, toast, now,
                 typable>>

removeDrug(id) ==
  /\ LET kept == keptPositions(drugs, id, 1)
     IN /\ drugs' = [k \in 1..Len(kept) |-> drugs[kept[k]]]
        /\ entered' = [k \in 1..Len(kept) |-> entered[kept[k]]]
  /\ interactions' = <<>>
  /\ UNCHANGED <<newDrug, isAnalyzing, pending, toast, now, typable>>

\* Variant: the early return is missing, the analysis starts all the same.
analyzeInsufficient_noReturn ==
  /\ Len(drugs) < 2
  /\ toast' = "Insufficient Data"
  /\ isAnalyzing' = TRUE
  /\ pending' = Append(pending, drugs)
  /\ UNCHANGED <<drugs, newDrug, interactions, now, typable, entered>>

analyzeInsufficient ==
  /\ Len(drugs) < 2
  /\ toast' = "Insufficient Data"
  /\ UNCHANGED <<drugs, newDrug, interactions, isAnalyzing, pending, now,
                 typable, entered>>

analyzeStart ==
  /\ Len(drugs) >= 2
  /\ isAnalyzing' = TRUE
  /\ pending' = Append(pending, drugs)
  /\ UNCHANGED <<drugs, newDrug, interactions, toast, now, typable, entered>>

analyzeInteractions == analyzeInsufficient \/ analyzeStart

\* Variant: the findings are added to those of the previous analysis.
analyzeResume_accumulates ==
  /\ pending # <<>>
  /\ LET foundInteractions ==
           interactions \o checkAllPairs(Head(pending)).found
     IN /\ interactions' = foundInteractions
        /\ toast' = IF Len(foundInteractions) = 0
                      THEN "Analysis Complete"
                      ELSE "Interactions Found"
  /\ isAnalyzing' = FALSE
  /\ pending' = Tail(pending)
  /\ UNCHANGED <<drugs, newDrug, now, typable, entered>>

\* Variant: the loading flag is never cleared.
analyzeResume_staysAnalyzing ==
  /\ pending # <<>>
  /\ LET foundInteractions == checkAllPairs(Head(pending)).found
     IN /\ interactions' = foundInteractions
        /\ toast' = IF Len(foundInteractions) = 0
                      THEN "Analysis Complete"
                      ELSE "Interactions Found"
  /\ pending' = Tail(pending)
  /\ UNCHANGED <<drugs, newDrug, isAnalyzing, now, typable, entered>>

\* Variant: the continuation reads the list as it is when the timer fires.
analyzeResume_currentList ==
  /\ pending # <<>>
  /\ LET foundInteractions == checkAllPairs(drugs).found
     IN /\ interactions' = foundInteractions
        /\ toast' = IF Len(foundInteractions) = 0
                      THEN "Analysis Complete"
                      ELSE "Interactions Found"
  /\ isAnalyzing' = FALSE
  /\ pending' = Tail(pending)
  /\ UNCHANGED <<drugs, newDrug, now, typable, entered>>

\* The continuation after the await, run when the 2000 ms timer fires.
analyzeResume ==
  /\ pending # <<>>
  /\ LET foundInteractions == checkAllPairs(Head(pending)).found
     IN /\ interactions' = foundInteractions
        /\ toast' = IF Len(foundInteractions) = 0
                      THEN "Analysis Complete"
                      ELSE "Interactions Found"
  /\ isAnalyzing' = FALSE
  /\ pending' = Tail(pending)
  /\ UNCHANGED <<drugs, newDrug, now, typable, entered>>

\* Date.now() moves on.
Tick ==
  /\ now < MaxClock
  /\ now' = now + 1
  /\ UNCHANGED <<drugs, newDrug, interactions, isAnalyzing, pending, toast,
                 typable, entered>>

\* ----------------------------------------------------------- rendered view
\* Variant: the button stays enabled while an analysis is running.
analyzeDisabled_onlyShort == Len(drugs) < 2

analyzeDisabled == isAnalyzing \/ Len(drugs) < 2

analyzeButtonRendered == Len(drugs) > 0

noInteractionsShown ==
  Len(drugs) >= 2 /\ Len(interactions) = 0 /\ ~isAnalyzing

renderedIds == { drugs[k].id : k \in 1..Len(drugs) }

\* ---------------------------------------------------------- specifications
\* Spec: the component as the user drives it.  A handler runs when its
\* control is rendered and enabled; the dosage and frequency fields are
\* left blank.
clickAnalyze ==
  /\ analyzeButtonRendered
  /\ ~analyzeDisabled
  /\ analyzeInteractions

clickRemove == \E id \in renderedIds : removeDrug(id)

Next ==
  \/ UNCHANGED otherTabs /\ \E v \in typable : onChangeName(v)
  \/ UNCHANGED otherTabs /\ addDrugRejected
  \/ UNCHANGED otherTabs /\ addDrugAccepted
  \/ UNCHANGED otherTabs /\ clickRemove
  \/ UNCHANGED otherTabs /\ clickAnalyze
  \/ UNCHANGED otherTabs /\ analyzeResume
  \/ UNCHANGED otherTabs /\ Tick

Spec == Init /\ [][Next]_vars


\* MatcherSpec: the analysis run on each drug list of up to MaxList entries,
\* the list being what addDrug leaves after the names were typed and added
\* one per clock reading.
EntriesOf(names) ==
  [k \in 1..Len(names) |->
     newDrugEntry([name |-> names[k], dosage |-> "", frequency |-> ""], k - 1)]

MatcherInit ==
  /\ \E n \in 0..MaxList : \E names \in [1..n -> MatcherNames] :
       /\ drugs = EntriesOf(names)
       /\ entered = names
       /\ now = n
  /\ newDrug = emptyForm
  /\ interactions = <<>>
  /\ isAnalyzing = FALSE
  /\ pending = <<>>
  /\ toast = "Drug Added"
  /\ typable = {}
  /\ otherTabsMounted

MatcherNext ==
  \/ UNCHANGED otherTabs /\ clickAnalyze
  \/ UNCHANGED otherTabs /\ analyzeResume

MatcherSpec == MatcherInit /\ [][MatcherNext]_vars

\* HandlerSpec: the handlers called directly, whatever the rendered controls
\* allow, each call awaited before the next one is made.
AnyIds == { toString(t) : t \in 0..MaxClock }

HandlerInit ==
  /\ drugs = <<>>
  /\ newDrug = emptyForm
  /\ interactions = <<>>
  /\ isAnalyzing = FALSE
  /\ pending = <<>>
  /\ toast = ""
  /\ now = 0
  /\ typable = TypedNames
  /\ entered = <<>>
  /\ otherTabsMounted

awaited == pending = <<>>

HandlerNext ==
  \/ UNCHANGED otherTabs /\ analyzeResume
  \/ UNCHANGED otherTabs /\ awaited /\ \E v \in typable : onChangeName(v)
  \/ UNCHANGED otherTabs /\ awaited /\ addDrugRejected
  \/ UNCHANGED otherTabs /\ awaited /\ addDrugAccepted
  \/ UNCHANGED otherTabs /\ awaited /\ \E id \in AnyIds : removeDrug(id)
  \/ UNCHANGED otherTabs /\ awaited /\ analyzeInsufficient
  \/ UNCHANGED otherTabs /\ awaited /\ analyzeStart
  \/ UNCHANGED otherTabs /\ awaited /\ Tick

HandlerSpec == HandlerInit /\ [][HandlerNext]_vars

\* LiveSpec: a list has been entered; from then on the user analyses it and
\* removes entries from it, at any moment, and the timer of a suspended
\* analysis eventually fires (setTimeout: the event loop runs every callback
\* whose delay has expired, and nothing cancels this one).
LiveLists ==
  { <<Warfarin, ASPIRIN>>, <<ASPIRIN, Warfarin>>, <<Warfarin, metformin>>,
    <<metformin, metformin>>, <<ASPIRIN, ASPIRIN>>,
    <<Warfarin, ASPIRIN, metformin>>, <<metformin, Warfarin, ASPIRIN>>,
    <<ASPIRIN, ASPIRIN, Warfarin>>, <<metformin, ASPIRIN, metformin>>,
    <<Warfarin, metformin, Warfarin>> }

LiveInit ==
  /\ \E names \in LiveLists :
       /\ drugs = EntriesOf(names)
       /\ entered = names
       /\ now = Len(names)
  /\ newDrug = emptyForm
  /\ interactions = <<>>
  /\ isAnalyzing = FALSE
  /\ pending = <<>>
  /\ toast = "Drug Added"
  /\ typable = {}
  /\ otherTabsMounted

LiveNext ==
  \/ UNCHANGED otherTabs /\ clickAnalyze
  \/ UNCHANGED otherTabs /\ clickRemove
  \/ UNCHANGED otherTabs /\ analyzeResume

LiveSpec ==
  /\ LiveInit
  /\ [][LiveNext]_vars
  /\ WF_vars(UNCHANGED otherTabs /\ analyzeResume)

\* ------------------------------------------------------- DosageCalculator
acetaminophen == <<"a","c","e","t","a","m","i","n","o","p","h","e","n">>
amoxicillin   == <<"a","m","o","x","i","c","i","l","l","i","n">>

dosageDatabase ==
  [k \in {acetaminophen, ibuprofen, amoxicillin, metformin} |->
     CASE k = acetaminophen ->
            [name |-> "Acetaminophen",
             pediatricDose |-> "10-15 mg/kg every 4-6 hours",
             adultDose |-> "500-1000 mg every 4-6 hours",
             elderlyDose |-> "325-650 mg every 4-6 hours",
             maxDaily |-> "4000 mg (adult), 3000 mg (elderly)",
             warnings |-> <<"Hepatotoxicity risk with overdose",
                            "Reduce dose in liver disease">>]
       [] k = ibuprofen ->
            [name |-> "Ibuprofen",
             pediatricDose |-> "5-10 mg/kg every 6-8 hours",
             adultDose |-> "200-400 mg every 4-6 hours",
             elderlyDose |-> "200 mg every 6-8 hours",
             maxDaily |-> "1200 mg (OTC), 2400 mg (prescription)",
             warnings |-> <<"GI bleeding risk",
                            "Avoid in renal impairment",
                            "Use caution in elderly">>]
       [] k = amoxicillin ->
            [name |-> "Amoxicillin",
             pediatricDose |-> "20-40 mg/kg/day divided every 8 hours",
             adultDose |-> "250-500 mg every 8 hours",
             elderlyDose |-> "250-500 mg every 8-12 hours",
             maxDaily |-> "1500 mg (standard), 3000 mg (severe infections)",
             warnings |-> <<"Adjust dose in renal impairment",
                            "Check for penicillin allergy">>]
       [] k = metformin ->
            [name |-> "Metformin",
             pediatricDose |-> "500 mg twice daily (>10 years)",
             adultDose |-> "500-1000 mg twice daily",
             elderlyDose |-> "500 mg once or twice daily",
             maxDaily |-> "2000-2550 mg",
             warnings |-> <<"Contraindicated in severe renal impairment",
                            "Monitor for lactic acidosis">>] ]

\* dosageDatabase[drugName]
drugInfoOf(drugName) ==
  IF drugName \in DOMAIN dosageDatabase
    THEN present(dosageDatabase[drugName])
    ELSE undefined

\* NaN, kept apart from every number a field of the form can hold.
NaN == 0 - 1000000000

\* x < y and x > y for numbers; false when one of them is NaN.
lessThan(x, y) == x # NaN /\ y # NaN /\ x < y
greaterThan(x, y) == x # NaN /\ y # NaN /\ x > y

isDigit(c) == \E d \in 1..Len(Digits) : Digits[d] = c

digitValue(c) == (CHOOSE d \in 1..Len(Digits) : Digits[d] = c) - 1

\* The longest prefix of s made of digits.
RECURSIVE leadingDigits(_)
leadingDigits(s) ==
  IF s # <<>> /\ isDigit(Head(s))
    THEN <<Head(s)>> \o leadingDigits(Tail(s))
    ELSE <<>>

RECURSIVE valueOfDigits(_)
valueOfDigits(ds) ==
  IF ds = <<>> THEN 0
  ELSE 10 * valueOfDigits(SubSeq(ds, 1, Len(ds) - 1))
         + digitValue(ds[Len(ds)])

hasSign(s) == s # <<>> /\ Head(s) \in {"-", "+"}

unsigned(s) == IF hasSign(s) THEN Tail(s) ELSE s

signed(s, n) == IF s # <<>> /\ Head(s) = "-" THEN 0 - n ELSE n

\* parseInt(s): white space skipped, a sign, the leading digits; NaN when
\* there is no digit.
parseInt(s) ==
  LET t == trimStart(s)
      ds == leadingDigits(unsigned(t))
  IN IF ds = <<>> THEN NaN ELSE signed(t, valueOfDigits(ds))

\* parseFloat(s), in tenths: white space skipped, a sign, the leading
\* digits, and a point with the digits after it.  The weight field steps by
\* 0.1, and the weights entered here have at most one decimal.
parseFloat(s) ==
  LET t == trimStart(s)
      u == unsigned(t)
      ds == leadingDigits(u)
      rest == SubSeq(u, Len(ds) + 1, Len(u))
      fs == IF rest # <<>> /\ Head(rest) = "."
              THEN leadingDigits(Tail(rest))
              ELSE <<>>
      tenths == IF fs = <<>> THEN 0 ELSE digitValue(fs[1])
  IN IF ds = <<>> /\ fs = <<>> THEN NaN
     ELSE signed(t, 10 * valueOfDigits(ds) + tenths)

\* !x for a number x
falsyNumber(x) == x = NaN \/ x = 0

toUpperCaseChar(c) ==
  IF \E k \in 1..Len(LowerAlpha) : LowerAlpha[k] = c
    THEN UpperAlpha[CHOOSE k \in 1..Len(LowerAlpha) : LowerAlpha[k] = c]
    ELSE c

infant     == <<"i","n","f","a","n","t">>
child      == <<"c","h","i","l","d">>
adolescent == <<"a","d","o","l","e","s","c","e","n","t">>
adult      == <<"a","d","u","l","t">>
elderly    == <<"e","l","d","e","r","l","y">>

\* Variant: age 12 still counts as a child.
getAgeGroup_childAtTwelve(age) ==
  IF age < 2 THEN infant
  ELSE IF age <= 12 THEN child
  ELSE IF age < 18 THEN adolescent
  ELSE IF age < 65 THEN adult
  ELSE elderly

getAgeGroup(age) ==
  IF age < 2 THEN infant
  ELSE IF age < 12 THEN child
  ELSE IF age < 18 THEN adolescent
  ELSE IF age < 65 THEN adult
  ELSE elderly

\* ageGroup.charAt(0).toUpperCase() + ageGroup.slice(1)
capitalised(g) == <<toUpperCaseChar(g[1])>> \o SubSeq(g, 2, Len(g))

\* Variant: the warnings of the result on display are kept in the new one.
dosageResultFor_keepsWarnings(age, drugInfo) ==
  LET ageGroup == getAgeGroup(age)
  IN [recommendedDose |->
        IF ageGroup \in {infant, child} THEN drugInfo.pediatricDose
        ELSE IF ageGroup \in {adolescent, adult} THEN drugInfo.adultDose
        ELSE drugInfo.elderlyDose,
      maxDailyDose |-> drugInfo.maxDaily,
      frequency |->
        IF ageGroup \in {infant, child} THEN "As per pediatric guidelines"
        ELSE IF ageGroup \in {adolescent, adult} THEN "Standard adult dosing"
        ELSE "Reduced frequency for elderly",
      warnings |-> (IF dosageResult = null THEN <<>>
                    ELSE dosageResult[1].warnings) \o drugInfo.warnings,
      ageGroup |-> capitalised(ageGroup)]

\* The DosageResult the timer callback builds from what it closed over.
dosageResultFor(age, drugInfo) ==
  LET ageGroup == getAgeGroup(age)
  IN [recommendedDose |->
        IF ageGroup \in {infant, child} THEN drugInfo.pediatricDose
        ELSE IF ageGroup \in {adolescent, adult} THEN drugInfo.adultDose
        ELSE drugInfo.elderlyDose,
      maxDailyDose |-> drugInfo.maxDaily,
      frequency |->
        IF ageGroup \in {infant, child} THEN "As per pediatric guidelines"
        ELSE IF ageGroup \in {adolescent, adult} THEN "Standard adult dosing"
        ELSE "Reduced frequency for elderly",
      warnings |-> drugInfo.warnings,
      ageGroup |-> capitalised(ageGroup)]

calcValidationError ==
  /\ \/ falsyNumber(parseInt(patientData.age))
     \/ falsyNumber(parseFloat(patientData.weight))
     \/ toLowerCase(patientData.drugName) = <<>>
  /\ toast' = "Validation Error"
  /\ UNCHANGED calculatorState

calcInvalidAge ==
  LET age == parseInt(patientData.age)
  IN /\ ~falsyNumber(age)
     /\ ~falsyNumber(parseFloat(patientData.weight))
     /\ toLowerCase(patientData.drugName) # <<>>
     /\ lessThan(age, 0) \/ greaterThan(age, 120)
     /\ toast' = "Invalid Age"
     /\ UNCHANGED calculatorState

calcInvalidWeight ==
  LET age == parseInt(patientData.age)
      weight == parseFloat(patientData.weight)
  IN /\ ~falsyNumber(age)
     /\ ~falsyNumber(weight)
     /\ toLowerCase(patientData.drugName) # <<>>
     /\ ~(lessThan(age, 0) \/ greaterThan(age, 120))
     /\ lessThan(weight, 10) \/ greaterThan(weight, 3000)
     /\ toast' = "Invalid Weight"
     /\ UNCHANGED calculatorState

\* The checks of calculateDosage before the table lookup all passed.
calcFieldsValid ==
  LET age == parseInt(patientData.age)
      weight == parseFloat(patientData.weight)
  IN /\ ~falsyNumber(age)
     /\ ~falsyNumber(weight)
     /\ toLowerCase(patientData.drugName) # <<>>
     /\ ~(lessThan(age, 0) \/ greaterThan(age, 120))
     /\ ~(lessThan(weight, 10) \/ greaterThan(weight, 3000))

calcDrugNotFound ==
  /\ calcFieldsValid
  /\ drugInfoOf(toLowerCase(patientData.drugName)) = undefined
  /\ toast' = "Drug Not Found"
  /\ UNCHANGED calculatorState

calcStart ==
  /\ calcFieldsValid
  /\ drugInfoOf(toLowerCase(patientData.drugName)) # undefined
  /\ isCalculating' = TRUE
  /\ calcTimers' =
       Append(calcTimers,
              [age |-> parseInt(patientData.age),
               drugInfo |->
                 drugInfoOf(toLowerCase(patientData.drugName))[1]])
  /\ UNCHANGED <<patientData, dosageResult, toast>>

calculateDosage ==
  \/ calcValidationError
  \/ calcInvalidAge
  \/ calcInvalidWeight
  \/ calcDrugNotFound
  \/ calcStart

\* The setTimeout callback, run when the 1500 ms have passed.
calcTimerFires ==
  /\ calcTimers # <<>>
  /\ dosageResult' =
       present(dosageResultFor(Head(calcTimers).age,
                               Head(calcTimers).drugInfo))
  /\ isCalculating' = FALSE
  /\ calcTimers' = Tail(calcTimers)
  /\ toast' = "Dosage Calculated"
  /\ UNCHANGED patientData

resetCalculator ==
  /\ patientData' = emptyPatient
  /\ dosageResult' = null
  /\ UNCHANGED <<isCalculating, calcTimers, toast>>

\* The Calculate button is disabled while isCalculating.
clickCalculate == ~isCalculating /\ calculateDosage

\* What is entered in the age and weight fields, and the values of the
\* drug Select (nothing selected included).
AgeInputs ==
  { <<>>, <<"0">>, <<"1">>, <<"2">>, <<"1","1">>, <<"1","2">>, <<"1","7">>, <<"1","8">>,
    <<"6","4">>, <<"6","5">>, <<"1","2","0">>, <<"1","2","1">>, <<"-","1">> }

WeightInputs ==
  { <<>>, <<"0">>, <<"0",".","5">>, <<"1">>, <<"7","0">>, <<"3","0","0">>,
    <<"3","0","0",".","1">> }

DosageSelect == { <<>>, acetaminophen, ibuprofen, amoxicillin, metformin }

\* DosageSpec: the calculator tab with its form filled in; the user
\* calculates and resets.
analyzerMounted ==
  /\ drugs = <<>>
  /\ newDrug = emptyForm
  /\ interactions = <<>>
  /\ isAnalyzing = FALSE
  /\ pending = <<>>
  /\ now = 0
  /\ typable = {}
  /\ entered = <<>>

DosageInit ==
  /\ \E a \in AgeInputs : \E w \in WeightInputs : \E d \in DosageSelect :
       patientData = [age |-> a, weight |-> w, drugName |-> d,
                      indication |-> ""]
  /\ dosageResult = null
  /\ isCalculating = FALSE
  /\ calcTimers = <<>>
  /\ toast = ""
  /\ analyzerMounted
  /\ alternativesMounted
  /\ nlpMounted

notCalculator == <<analyzerState, alternativesState, nlpState>>

DosageNext ==
  \/ UNCHANGED notCalculator /\ clickCalculate
  \/ UNCHANGED notCalculator /\ calcTimerFires
  \/ UNCHANGED notCalculator /\ resetCalculator

DosageSpec == DosageInit /\ [][DosageNext]_vars

\* -------------------------------------------------- AlternativeSuggestions
alternativesDatabase ==
  [k \in {warfarin, ibuprofen, metformin} |->
     CASE k = warfarin ->
            << [name |-> "Rivaroxaban (Xarelto)",
                mechanismOfAction |-> "Direct Factor Xa inhibitor",
                efficacy |-> "equivalent",
                sideEffects |-> <<"Bleeding", "Nausea", "Dizziness">>,
                contraindications |->
                  <<"Active bleeding", "Severe renal impairment">>,
                advantages |-> <<"No routine monitoring required",
                                 "Fewer drug interactions">>,
                costComparison |-> "higher"],
               [name |-> "Dabigatran (Pradaxa)",
                mechanismOfAction |-> "Direct thrombin inhibitor",
                efficacy |-> "equivalent",
                sideEffects |-> <<"Bleeding", "Dyspepsia", "Abdominal pain">>,
                contraindications |->
                  <<"Mechanical heart valves", "Severe renal impairment">>,
                advantages |-> <<"Predictable anticoagulation",
                                 "Reversible with idarucizumab">>,
                costComparison |-> "higher"] >>
       [] k = ibuprofen ->
            << [name |-> "Acetaminophen (Tylenol)",
                mechanismOfAction |-> "Central COX inhibition",
                efficacy |-> "similar",
                sideEffects |->
                  <<"Hepatotoxicity (rare)", "Minimal GI effects">>,
                contraindications |-> <<"Severe liver disease">>,
                advantages |-> <<"Lower GI bleeding risk",
                                 "Safe in kidney disease">>,
                costComparison |-> "lower"],
               [name |-> "Topical Diclofenac",
                mechanismOfAction |-> "Topical NSAID",
                efficacy |-> "similar",
                sideEffects |->
                  <<"Local skin irritation", "Minimal systemic effects">>,
                contraindications |-> <<"Open wounds at application site">>,
                advantages |-> <<"Reduced systemic side effects",
                                 "Lower drug interactions">>,
                costComparison |-> "higher"] >>
       [] k = metformin ->
            << [name |-> "Sitagliptin (Januvia)",
                mechanismOfAction |-> "DPP-4 inhibitor",
                efficacy |-> "similar",
                sideEffects |->
                  <<"Upper respiratory infections", "Headache">>,
                contraindications |->
                  <<"Type 1 diabetes", "Diabetic ketoacidosis">>,
                advantages |-> <<"Weight neutral", "Low hypoglycemia risk">>,
                costComparison |-> "higher"],
               [name |-> "Empagliflozin (Jardiance)",
                mechanismOfAction |-> "SGLT2 inhibitor",
                efficacy |-> "equivalent",
                sideEffects |->
                  <<"UTIs", "Genital infections", "Dehydration">>,
                contraindications |->
                  <<"Severe renal impairment", "Type 1 diabetes">>,
                advantages |-> <<"Cardiovascular benefits", "Weight loss">>,
                costComparison |-> "higher"] >> ]

\* alternativesDatabase[drugName]
alternativesOf(drugName) ==
  IF drugName \in DOMAIN alternativesDatabase
    THEN present(alternativesDatabase[drugName])
    ELSE undefined

searchMissingInformation ==
  /\ toLowerCase(searchData.drugName) = <<>> \/ searchData.reason = ""
  /\ toast' = "Missing Information"
  /\ UNCHANGED alternativesState

\* Variant: the name is looked up as entered.
searchStart_asEntered ==
  /\ toLowerCase(searchData.drugName) # <<>>
  /\ searchData.reason # ""
  /\ isSearching' = TRUE
  /\ searchAwaits' =
       Append(searchAwaits,
              [drugName |-> searchData.drugName, searchData |-> searchData])
  /\ UNCHANGED <<searchData, results, toast>>

\* Up to the await: the continuation keeps drugName and searchData.
searchStart ==
  /\ toLowerCase(searchData.drugName) # <<>>
  /\ searchData.reason # ""
  /\ isSearching' = TRUE
  /\ searchAwaits' =
       Append(searchAwaits,
              [drugName |-> toLowerCase(searchData.drugName),
               searchData |-> searchData])
  /\ UNCHANGED <<searchData, results, toast>>

searchAlternatives == searchMissingInformation \/ searchStart

\* The continuation after the await, run when the 2000 ms timer fires.
searchResume ==
  /\ searchAwaits # <<>>
  /\ LET closed == Head(searchAwaits)
         alternatives == alternativesOf(closed.drugName)
     IN IF alternatives = undefined
          THEN /\ results' =
                    present([originalDrug |-> closed.searchData.drugName,
                             reason |-> closed.searchData.reason,
                             alternatives |-> <<>>])
               /\ toast' = "No Alternatives Found"
          ELSE /\ results' =
                    present([originalDrug |-> closed.searchData.drugName,
                             reason |-> closed.searchData.reason,
                             alternatives |-> alternatives[1]])
               /\ toast' = "Alternatives Found"
  /\ isSearching' = FALSE
  /\ searchAwaits' = Tail(searchAwaits)
  /\ UNCHANGED searchData

resetSearch ==
  /\ searchData' = emptySearch
  /\ results' = null
  /\ UNCHANGED <<isSearching, searchAwaits, toast>>

\* The Find Alternatives button is disabled while isSearching.
clickSearch == ~isSearching /\ searchAlternatives

\* Drug names and reasons searchAlternatives is called with: the values of
\* the two Selects, nothing selected, and names in other spellings.
WARFARIN == <<"W","A","R","F","A","R","I","N">>

SearchNames ==
  { <<>>, warfarin, ibuprofen, metformin, WARFARIN, Warfarin, aspirin }

SearchReasons ==
  { "", "drug-interaction", "side-effects", "contraindication", "cost",
    "efficacy" }

\* AltSpec: searchAlternatives called on each name and reason.
AltInit ==
  /\ \E d \in SearchNames : \E r \in SearchReasons :
       searchData = [drugName |-> d, reason |-> r, patientAge |-> "",
                     conditions |-> ""]
  /\ results = null
  /\ isSearching = FALSE
  /\ searchAwaits = <<>>
  /\ toast = ""
  /\ analyzerMounted
  /\ calculatorMounted
  /\ nlpMounted

notAlternatives == <<analyzerState, calculatorState, nlpState>>

AltNext ==
  \/ UNCHANGED notAlternatives /\ clickSearch
  \/ UNCHANGED notAlternatives /\ searchResume
  \/ UNCHANGED notAlternatives /\ resetSearch

AltSpec == AltInit /\ [][AltNext]_vars

\* ------------------------------------------------------------ NLPAnalyzer
\* \w
isWordChar(c) ==
  \/ \E k \in 1..Len(UpperAlpha) : UpperAlpha[k] = c
  \/ \E k \in 1..Len(LowerAlpha) : LowerAlpha[k] = c
  \/ isDigit(c)
  \/ c = "_"

\* \b in front of text[p] (p = Len(text) + 1: at the end of the text)
wordBoundary(text, p) ==
  LET before == p > 1 /\ isWordChar(text[p - 1])
      after == p <= Len(text) /\ isWordChar(text[p])
  IN before # after

\* The literal lit at text[p], letter case ignored (flag i).
matchesAt(text, p, lit) ==
  /\ p + Len(lit) - 1 <= Len(text)
  /\ \A k \in 1..Len(lit) :
       toLowerCaseChar(text[p + k - 1]) = toLowerCaseChar(lit[k])

\* a|b|c at text[p]: the first alternative that matches, 0 when none does.
firstAlternative(text, p, alts) ==
  LET hits == { k \in 1..Len(alts) : matchesAt(text, p, alts[k]) }
  IN IF hits = {} THEN 0 ELSE CHOOSE k \in hits : \A m \in hits : k <= m

\* \b(a|b|c)\b at text[p]: the first alternative that matches between word
\* boundaries, 0 when none does.
firstWord(text, p, alts) ==
  LET hits == { k \in 1..Len(alts) :
                  /\ wordBoundary(text, p)
                  /\ matchesAt(text, p, alts[k])
                  /\ wordBoundary(text, p + Len(alts[k])) }
  IN IF hits = {} THEN 0 ELSE CHOOSE k \in hits : \A m \in hits : k <= m

\* \s* and \d* from text[p]: the position after the longest run.
RECURSIVE skipSpaces(_, _)
skipSpaces(text, p) ==
  IF p <= Len(text) /\ text[p] \in WhiteSpace
    THEN skipSpaces(text, p + 1)
    ELSE p

RECURSIVE skipDigits(_, _)
skipDigits(text, p) ==
  IF p <= Len(text) /\ isDigit(text[p])
    THEN skipDigits(text, p + 1)
    ELSE p

atorvastatin == <<"a","t","o","r","v","a","s","t","a","t","i","n">>
metoprolol   == <<"m","e","t","o","p","r","o","l","o","l">>
omeprazole   == <<"o","m","e","p","r","a","z","o","l","e">>
amlodipine   == <<"a","m","l","o","d","i","p","i","n","e">>

DrugWords ==
  <<metformin, warfarin, aspirin, lisinopril, atorvastatin, metoprolol,
    ibuprofen, omeprazole, amlodipine, acetaminophen, amoxicillin>>

DoseUnits == << <<"m","g">>, <<"g">>, <<"m","c","g">> >>

TimesWords == << <<"o","n","c","e">>, <<"t","w","i","c","e">>, <<"t","h","r","e","e"," ","t","i","m","e","s">>, <<"f","o","u","r"," ","t","i","m","e","s">> >>

PerDayWords == << <<"d","a","i","l","y">>, <<"a"," ","d","a","y">>, <<"p","e","r"," ","d","a","y">> >>

FrequencyCodes == << <<"b","i","d">>, <<"t","i","d">>, <<"q","i","d">>, <<"p","r","n">> >>

\* (\d+\s*(?:mg|g|mcg)) at text[p]: the position after it, 0 when it does
\* not match.
dosageEnd(text, p) ==
  LET d == skipDigits(text, p)
      u == skipSpaces(text, d)
      k == firstAlternative(text, u, DoseUnits)
  IN IF d = p \/ k = 0 THEN 0 ELSE u + Len(DoseUnits[k])

\* (once|twice|three times|four times) at text[p]: the position after it.
timesEnd(text, p) ==
  LET k == firstAlternative(text, p, TimesWords)
  IN IF k = 0 THEN 0 ELSE p + Len(TimesWords[k])

\* (daily|q\d+h|bid|tid|qid|prn) at text[p]: the position after it.
codeEnd(text, p) ==
  LET d == skipDigits(text, p + 1)
      k == firstAlternative(text, p, FrequencyCodes)
  IN IF matchesAt(text, p, PerDayWords[1]) THEN p + Len(PerDayWords[1])
     ELSE IF /\ matchesAt(text, p, <<"q">>)
             /\ d > p + 1
             /\ matchesAt(text, d, <<"h">>) THEN d + 1
     ELSE IF k # 0 THEN p + Len(FrequencyCodes[k])
     ELSE 0

\* The match of the drug pattern that starts at text[p], its name being
\* DrugWords[n]: what exec returns (groups 1 to 4) and the position after
\* the match.  Every part after the name is optional, so the first way each
\* part matches is the one kept.
\* Variant: the match is reported as ending where it starts.
drugMatch_emptyMatch(text, p, n) ==
  LET e1 == p + Len(DrugWords[n])
      s1 == skipSpaces(text, e1)
      e2 == dosageEnd(text, s1)
      s2 == skipSpaces(text, IF e2 = 0 THEN s1 ELSE e2)
      e3 == timesEnd(text, s2)
      e4 == codeEnd(text, s2)
  IN [name |-> SubSeq(text, p, e1 - 1),
      dosage |-> IF e2 = 0 THEN undefined ELSE SubSeq(text, s1, e2 - 1),
      times |-> IF e3 = 0 THEN undefined ELSE SubSeq(text, s2, e3 - 1),
      code |-> IF e3 # 0 \/ e4 = 0 THEN undefined
               ELSE SubSeq(text, s2, e4 - 1),
      end |-> p]

drugMatch(text, p, n) ==
  LET e1 == p + Len(DrugWords[n])
      s1 == skipSpaces(text, e1)
      e2 == dosageEnd(text, s1)
      s2 == skipSpaces(text, IF e2 = 0 THEN s1 ELSE e2)
      e3 == timesEnd(text, s2)
      s3 == skipSpaces(text, e3)
      k == firstAlternative(text, s3, PerDayWords)
      e4 == codeEnd(text, s2)
  IN [name |-> SubSeq(text, p, e1 - 1),
      dosage |-> IF e2 = 0 THEN undefined ELSE SubSeq(text, s1, e2 - 1),
      times |-> IF e3 = 0 THEN undefined ELSE SubSeq(text, s2, e3 - 1),
      code |-> IF e3 # 0 \/ e4 = 0 THEN undefined
               ELSE SubSeq(text, s2, e4 - 1),
      end |-> IF e3 # 0
                THEN (IF k = 0 THEN s3 ELSE s3 + Len(PerDayWords[k]))
                ELSE IF e4 # 0 THEN e4 ELSE s2]

\* pattern.exec(text) with lastIndex = from - 1: the first position from
\* which the pattern matches, 0 when there is none.
RECURSIVE nextWord(_, _, _)
nextWord(text, from, alts) ==
  IF from > Len(text) THEN 0
  ELSE IF firstWord(text, from, alts) # 0 THEN from
  ELSE nextWord(text, from + 1, alts)

\* The matches the while loop over drugPatterns[0] goes through, in order.
RECURSIVE drugMatches(_, _)
drugMatches(text, from) ==
  LET p == nextWord(text, from, DrugWords)
      m == drugMatch(text, p, firstWord(text, p, DrugWords))
  IN IF p = 0 THEN <<>> ELSE <<m>> \o drugMatches(text, m.end)

\* a || b for strings
orElse(a, b) == IF a # <<>> THEN a ELSE b

\* The loop body for the k-th match and later ones: random[k] is what
\* Math.random() gave for the k-th match.
\* Variant: a later match with the same name and dosage replaces the
\* earlier one.
RECURSIVE pushDrugs_keepsLast(_, _, _, _)
pushDrugs_keepsLast(matches, random, k, extractedDrugs) ==
  IF k > Len(matches) THEN extractedDrugs
  ELSE LET drug == [name |-> toLowerCase(matches[k].name),
                    dosage |-> orElse(matches[k].dosage, undefined),
                    frequency |->
                      orElse(orElse(matches[k].times, matches[k].code),
                             undefined),
                    confidence |-> random[k]]
           same(d) == d.name = drug.name /\ d.dosage = drug.dosage
           exists == \E i \in 1..Len(extractedDrugs) :
                       same(extractedDrugs[i])
       IN pushDrugs_keepsLast(matches, random, k + 1,
            IF exists
              THEN [i \in 1..Len(extractedDrugs) |->
                      IF same(extractedDrugs[i]) THEN drug
                                                 ELSE extractedDrugs[i]]
              ELSE Append(extractedDrugs, drug))

RECURSIVE pushDrugs(_, _, _, _)
pushDrugs(matches, random, k, extractedDrugs) ==
  IF k > Len(matches) THEN extractedDrugs
  ELSE LET drug == [name |-> toLowerCase(matches[k].name),
                    dosage |-> orElse(matches[k].dosage, undefined),
                    frequency |->
                      orElse(orElse(matches[k].times, matches[k].code),
                             undefined),
                    confidence |-> random[k]]
           exists == \E i \in 1..Len(extractedDrugs) :
                       /\ extractedDrugs[i].name = drug.name
                       /\ extractedDrugs[i].dosage = drug.dosage
       IN pushDrugs(matches, random, k + 1,
                    IF exists THEN extractedDrugs
                              ELSE Append(extractedDrugs, drug))

EntityWords1 ==
  << <<"h","y","p","e","r","t","e","n","s","i","o","n">>, <<"d","i","a","b","e","t","e","s">>, <<"G","E","R","D">>,
     <<"c","a","r","d","i","o","p","r","o","t","e","c","t","i","o","n">>, <<"p","a","i","n">>, <<"B","P"," ","c","o","n","t","r","o","l">> >>

EntityWords2 == << <<"I","N","R">>, <<"t","a","r","g","e","t">>, <<"f","o","l","l","o","w"," ","u","p">>, <<"d","i","s","c","h","a","r","g","e">> >>

\* The while loop over one entity pattern, from position from on.
RECURSIVE pushEntities(_, _, _, _)
pushEntities(text, from, alts, medicalEntities) ==
  LET p == nextWord(text, from, alts)
      word == alts[firstWord(text, p, alts)]
      entity == toLowerCase(SubSeq(text, p, p + Len(word) - 1))
  IN IF p = 0 THEN medicalEntities
     ELSE pushEntities(text, p + Len(word), alts,
                       IF includes(medicalEntities, entity)
                         THEN medicalEntities
                         ELSE Append(medicalEntities, entity))

\* What Math.random() * 0.3 + 0.7 and 1.8 + Math.random() * 0.4 can give,
\* in hundredths.
Confidences == {70, 85, 99}
ProcessingTimes == {180, 219}

\* processText(text) after its delay, with the random numbers it draws.
processText(text, random, time) ==
  [originalText |-> text,
   extractedDrugs |-> pushDrugs(drugMatches(text, 1), random, 1, <<>>),
   medicalEntities |->
     pushEntities(text, 1, EntityWords2,
                  pushEntities(text, 1, EntityWords1, <<>>)),
   processingTime |-> time]

textNotProvided ==
  /\ trim(inputText) = <<>>
  /\ toast' = "No Text Provided"
  /\ UNCHANGED nlpState

\* Variant: the length is taken of the trimmed text.
textTooShort_trimmed ==
  /\ trim(inputText) # <<>>
  /\ Len(trim(inputText)) < 10
  /\ toast' = "Text Too Short"
  /\ UNCHANGED nlpState

textTooShort ==
  /\ trim(inputText) # <<>>
  /\ Len(inputText) < 10
  /\ toast' = "Text Too Short"
  /\ UNCHANGED nlpState

\* Up to the await inside processText.
analyzeTextStart ==
  /\ trim(inputText) # <<>>
  /\ Len(inputText) >= 10
  /\ isProcessing' = TRUE
  /\ textAwaits' = Append(textAwaits, inputText)
  /\ UNCHANGED <<inputText, result, toast>>

analyzeText == textNotProvided \/ textTooShort \/ analyzeTextStart

\* Texts entered in the textarea.
Texts ==
  { <<"m","e","t","f","o","r","m","i","n"," ","5","0","0","m","g"," ","t","w","i","c","e"," ","d","a","i","l","y">>,
    <<"A","s","p","i","r","i","n"," ","8","1"," ","m","g"," ","d","a","i","l","y",","," ","a","s","p","i","r","i","n"," ","8","1"," ","m","g"," ","b","i","d">>,
    <<"W","a","r","f","a","r","i","n"," ","5","m","g"," ","P","R","N",","," ","I","N","R"," ","t","a","r","g","e","t"," ","2">>,
    <<"p","a","i","n",","," ","G","E","R","D"," ","a","n","d"," ","P","a","i","n"," ","a","g","a","i","n">>,
    <<"n","o"," ","d","r","u","g"," ","i","n"," ","i","t">>,
    <<"i","b","u","p","r","o","f","e","n">>,
    <<" ","i","b","u","p","r","o","f","e","n">>,
    <<" "," "," "," "," "," "," "," "," "," "," "," ">> }

\* What processText(text) can resolve to for each text, over every value
\* the Math.random() calls can give.
processTextResults ==
  [text \in Texts |->
     { processText(text, random, time) :
         random \in [1..Len(drugMatches(text, 1)) -> Confidences],
         time \in ProcessingTimes }]

\* The continuation after the await, run when the 2000 ms timer fires:
\* the rest of processText, then the rest of the try block and finally.
processResume ==
  /\ textAwaits # <<>>
  /\ \E processed \in processTextResults[Head(textAwaits)] :
       result' = present(processed)
  /\ toast' = "Analysis Complete"
  /\ isProcessing' = FALSE
  /\ textAwaits' = Tail(textAwaits)
  /\ UNCHANGED inputText

clearAll ==
  /\ inputText' = <<>>
  /\ result' = null
  /\ UNCHANGED <<isProcessing, textAwaits, toast>>

\* The Analyze Text button is disabled while isProcessing.
clickAnalyzeText == ~isProcessing /\ analyzeText

\* NlpSpec: the text analyzer tab with a text entered; the user analyses
\* and clears.
NlpInit ==
  /\ inputText \in Texts
  /\ result = null
  /\ isProcessing = FALSE
  /\ textAwaits = <<>>
  /\ toast = ""
  /\ analyzerMounted
  /\ calculatorMounted
  /\ alternativesMounted

notNlp == <<analyzerState, calculatorState, alternativesState>>

NlpNext ==
  \/ UNCHANGED notNlp /\ clickAnalyzeText
  \/ UNCHANGED notNlp /\ processResume
  \/ UNCHANGED notNlp /\ clearAll

NlpSpec == NlpInit /\ [][NlpNext]_vars

\* NlpLiveSpec: NlpSpec, with the timer of a suspended processText
\* eventually firing (setTimeout: the event loop runs every callback whose
\* delay has expired, and nothing cancels this one).
NlpLiveSpec == NlpSpec /\ WF_vars(UNCHANGED notNlp /\ processResume)

\* RerunSpec: one of the four tabs with its inputs entered; the user runs
\* its analysis, and runs it again, without touching the inputs.
RerunInit == LiveInit \/ DosageInit \/ AltInit \/ NlpInit

RerunNext ==
  \/ UNCHANGED otherTabs /\ clickAnalyze
  \/ UNCHANGED otherTabs /\ analyzeResume
  \/ UNCHANGED notCalculator /\ clickCalculate
  \/ UNCHANGED notCalculator /\ calcTimerFires
  \/ UNCHANGED notAlternatives /\ clickSearch
  \/ UNCHANGED notAlternatives /\ searchResume
  \/ UNCHANGED notNlp /\ clickAnalyzeText
  \/ UNCHANGED notNlp /\ processResume

RerunSpec == RerunInit /\ [][RerunNext]_vars

\* ------------------------------------------------------------- properties
Range(f) == { f[k] : k \in DOMAIN f }

PositionPairs(n) == { p \in (1..n) \X (1..n) : p[1] < p[2] }

\* Some rule's drug pair is, as a set, the two case-folded names.
ExactPairRule(a, b) ==
  \E k \in 1..Len(mockInteractions) :
    Range(mockInteractions[k].drugs) = {toLowerCase(a), toLowerCase(b)}

MatchingPairs(list) ==
  { p \in PositionPairs(Len(list)) :
      ExactPairRule(list[p[1]].name, list[p[2]].name) }

\* In MatcherSpec: an analysis of the list in drugs has completed.
Analysed == toast \in {"Analysis Complete", "Interactions Found"}

LexLess(p, q) == p[1] < q[1] \/ (p[1] = q[1] /\ p[2] < q[2])

\* C1: after an analysis, a finding was emitted for positions (i, j), i < j,
\* if and only if some rule's drug pair equals the unordered set of the two
\* case-folded names at i and j.
C1_FindingIffExactPair ==
  Analysed =>
    LET r == checkAllPairs(drugs)
    IN /\ interactions = r.found
       /\ \A p \in PositionPairs(Len(drugs)) :
            (p \in Range(r.at)) <=> (p \in MatchingPairs(drugs))

\* C2: after an analysis, no finding was emitted for a position pair that
\* holds the same name twice when no rule pairs that name with itself; a
\* list of two such entries gives an empty result.
C2_NoFindingForRepeatedName ==
  Analysed =>
    LET r == checkAllPairs(drugs)
    IN /\ interactions = r.found
       /\ \A p \in PositionPairs(Len(drugs)) :
            ( /\ drugs[p[1]].name = drugs[p[2]].name
              /\ ~ExactPairRule(drugs[p[1]].name, drugs[p[2]].name) )
            => p \notin Range(r.at)
       /\ ( /\ Len(drugs) = 2
            /\ drugs[1].name = drugs[2].name
            /\ ~ExactPairRule(drugs[1].name, drugs[2].name) )
          => interactions = <<>>

\* C3: after an analysis of a list of at least 2 entries, the number of
\* findings is the number of position pairs whose names exactly match a
\* rule's pair.
C3_CountOfFindings ==
  (Analysed /\ Len(drugs) >= 2) =>
    Len(interactions) = Cardinality(MatchingPairs(drugs))

\* C4: after an analysis, the findings are in the order of the nested
\* iteration: the finding for (i, j) precedes the one for (i', j') exactly
\* when i < i', or i = i' and j < j'; each finding carries the names at its
\* positions.
C4_FindingsInIterationOrder ==
  Analysed =>
    LET r == checkAllPairs(drugs)
    IN /\ interactions = r.found
       /\ Len(r.at) = Len(interactions)
       /\ \A k \in 1..Len(interactions) :
            /\ interactions[k].drug1 = drugs[r.at[k][1]].name
            /\ interactions[k].drug2 = drugs[r.at[k][2]].name
       /\ \A k, m \in 1..Len(interactions) :
            (k < m) <=> LexLess(r.at[k], r.at[m])

C4_Witness ==
  /\ Analysed
  /\ Len(interactions) >= 2
  /\ interactions = checkAllPairs(drugs).found
  /\ interactions[1].severity # interactions[2].severity

\* C5: after an analysis, the drug1 and drug2 of every finding are the
\* names as the user typed them for the two entries.
C5_FindingKeepsTypedCasing ==
  Analysed =>
    LET r == checkAllPairs(drugs)
    IN /\ interactions = r.found
       /\ \A k \in 1..Len(interactions) :
            /\ interactions[k].drug1 = entered[r.at[k][1]]
            /\ interactions[k].drug2 = entered[r.at[k][2]]

\* C6: after an analysis of a two-entry list [A, B], the analysis of [B, A]
\* gives as many findings with the same severity, description and
\* recommendation, and drug1 and drug2 swapped.
C6_SymmetricInInputOrder ==
  (Analysed /\ Len(drugs) = 2) =>
    LET other == checkAllPairs(<<drugs[2], drugs[1]>>).found
    IN /\ Len(other) = Len(interactions)
       /\ \A k \in 1..Len(interactions) :
            /\ other[k].severity = interactions[k].severity
            /\ other[k].description = interactions[k].description
            /\ other[k].recommendation = interactions[k].recommendation
            /\ other[k].drug1 = interactions[k].drug2
            /\ other[k].drug2 = interactions[k].drug1

C6_Witness ==
  /\ Analysed
  /\ Len(drugs) = 2
  /\ drugs[1].name # drugs[2].name
  /\ Len(interactions) = 1

\* C7: a call of analyzeInteractions on a list of fewer than 2 entries raises
\* the "Insufficient Data" toast and leaves drugs, interactions, isAnalyzing
\* and the set of suspended analyses as they were.
C7_ShortListOnlySignals ==
  [][ (Len(drugs) < 2 /\ analyzeInteractions) =>
        /\ toast' = "Insufficient Data"
        /\ UNCHANGED <<drugs, interactions, isAnalyzing, pending>> ]_vars

C7_Witness ==
  /\ toast = "Insufficient Data"
  /\ Len(drugs) = 1
  /\ ~isAnalyzing
  /\ pending = <<>>

\* C8: the "No Interactions Detected" alert comes to be shown only by the
\* completion of an analysis whose result is empty.
C8_AlertOnlyAfterEmptyAnalysis ==
  [][ (~noInteractionsShown /\ noInteractionsShown') =>
        /\ pending # <<>>
        /\ isAnalyzing
        /\ interactions' = checkAllPairs(Head(pending)).found
        /\ interactions' = <<>> ]_vars

\* C9: the ids of the entries in the drug list are pairwise distinct.
C9_IdsDistinct ==
  \A i, j \in 1..Len(drugs) : i # j => drugs[i].id # drugs[j].id

\* C10: removeDrug(id) with an id in the list removes exactly one entry, the
\* one with that id, and keeps the others in their order.
C10_RemovesExactlyOne ==
  [][ \A id \in renderedIds :
        removeDrug(id) =>
          \E p \in 1..Len(drugs) :
            /\ drugs[p].id = id
            /\ drugs' = SubSeq(drugs, 1, p - 1)
                          \o SubSeq(drugs, p + 1, Len(drugs)) ]_vars

\* The clock reading an entry's id was made from.
idTime(d) == CHOOSE t \in 0..(MaxClock + MaxList) : toString(t) = d.id

NamesOf(list) == [k \in 1..Len(list) |-> list[k].name]

\* C11: an accepted addDrug appends the new entry and leaves the existing
\* entries and their order as they were; the entries of the list are always
\* in the order of the clock readings at which they were added.
C11_InsertionOrder ==
  /\ [](\A i, j \in 1..Len(drugs) :
          i < j => idTime(drugs[i]) <= idTime(drugs[j]))
  /\ [][ addDrugAccepted =>
           /\ Len(drugs') = Len(drugs) + 1
           /\ SubSeq(drugs', 1, Len(drugs)) = drugs
           /\ drugs'[Len(drugs')].id = toString(now)
           /\ entered'[Len(drugs')] = newDrug.name ]_vars

C11_Witness ==
  /\ Len(drugs) = 3
  /\ toast = "Drug Added"
  /\ drugs[1].name # drugs[2].name
  /\ drugs[1].id # drugs[3].id

\* C12: an analysis of a list that has already been analysed leaves the
\* findings exactly as the earlier analysis left them.
C12_SameListSameFindings ==
  [][ (Analysed /\ analyzeResume) => interactions' = interactions ]_vars

C12_Witness ==
  /\ Analysed
  /\ isAnalyzing
  /\ Len(interactions) >= 2

\* C13: with the shipped table, [warfarin, aspirin] gives exactly one
\* finding, of severity high, and [warfarin, aspirin, lisinopril] gives
\* exactly that finding and none that mentions lisinopril.
C13_ShippedExamples ==
  LET expected == <<Finding(drugs, 1, 2, mockInteractions[1])>>
  IN /\ (Analysed /\ NamesOf(drugs) = <<warfarin, aspirin>>) =>
          /\ Len(interactions) = 1
          /\ interactions[1].severity = "high"
          /\ interactions[1].drug1 = warfarin
          /\ interactions[1].drug2 = aspirin
     /\ (Analysed /\ NamesOf(drugs) = <<warfarin, aspirin, lisinopril>>) =>
          /\ interactions = expected
          /\ expected[1].severity = "high"
          /\ \A k \in 1..Len(interactions) :
               /\ interactions[k].drug1 # lisinopril
               /\ interactions[k].drug2 # lisinopril

C13_Witness ==
  /\ Analysed
  /\ NamesOf(drugs) = <<warfarin, aspirin, lisinopril>>
  /\ Len(interactions) = 1

\* C14: an analysis that has started completes: isAnalyzing does not stay
\* true for ever, and the step that completes it clears isAnalyzing and
\* stores the findings of the list the analysis was started on.
C14_AnalysisCompletes ==
  /\ isAnalyzing ~> ~isAnalyzing
  /\ [](isAnalyzing => pending # <<>>)
  /\ [][ (isAnalyzing /\ ~isAnalyzing') =>
           /\ pending # <<>>
           /\ Len(Head(pending)) >= 2
           /\ interactions' = checkAllPairs(Head(pending)).found ]_vars

C14_Witness ==
  /\ ~isAnalyzing
  /\ pending = <<>>
  /\ toast = "Interactions Found"
  /\ interactions # <<>>

\* C15: at most one analysis is suspended at any time, none is started
\* while isAnalyzing is true, and interactions is only ever set to the empty
\* list or, by the one step that ends a suspended analysis, to the complete
\* findings of that analysis.
C15_OneRequestOneResponse ==
  /\ [](Len(pending) <= 1 /\ (isAnalyzing <=> pending # <<>>))
  /\ [][ (pending' # pending /\ Len(pending') > Len(pending)) =>
           (~isAnalyzing /\ isAnalyzing') ]_vars
  /\ [][ (interactions' # interactions) =>
           \/ interactions' = <<>>
           \/ /\ pending # <<>>
              /\ pending' = Tail(pending)
              /\ interactions' = checkAllPairs(Head(pending)).found ]_vars

C15_Witness ==
  /\ isAnalyzing
  /\ Len(pending) = 1
  /\ interactions # <<>>

\* C16: every entry of the drug list has a non-empty, trimmed, lower-case
\* name, and addDrug on an empty or whitespace-only name leaves the list as
\* it was.
C16_NamesNormalised ==
  /\ [](\A k \in 1..Len(drugs) :
          /\ drugs[k].name # <<>>
          /\ trim(drugs[k].name) = drugs[k].name
          /\ \A c \in Range(drugs[k].name) :
               c \notin Range(UpperAlpha) /\ c \notin WhiteSpace)
  /\ [][ (trim(newDrug.name) = <<>> /\ addDrug) => drugs' = drugs ]_vars

C16_Witness ==
  /\ Len(drugs) >= 1
  /\ entered[1] = Warfarin
  /\ drugs[1].name = warfarin
  /\ toast = "Validation Error"

\* C20: both drugs of every finding in interactions are in the drug list.
C20_FindingsNameListedDrugs ==
  \A k \in 1..Len(interactions) :
    /\ interactions[k].drug1 \in Range(NamesOf(drugs))
    /\ interactions[k].drug2 \in Range(NamesOf(drugs))

\* C18: with a weight from 1 to 300 and a drug of the dosage table,
\* calculateDosage starts a calculation for every age from 0 to 120.
C18_AgesZeroTo120Accepted ==
  [][ LET age == parseInt(patientData.age)
          weight == parseFloat(patientData.weight)
      IN ( /\ age # NaN /\ age >= 0 /\ age <= 120
           /\ weight # NaN /\ weight >= 10 /\ weight <= 3000
           /\ drugInfoOf(toLowerCase(patientData.drugName)) # undefined
           /\ clickCalculate )
         => (isCalculating' /\ Len(calcTimers') = Len(calcTimers) + 1)
    ]_vars

withoutRandom(r) ==
  [originalText |-> r.originalText,
   extractedDrugs |->
     [k \in 1..Len(r.extractedDrugs) |->
        [name |-> r.extractedDrugs[k].name,
         dosage |-> r.extractedDrugs[k].dosage,
         frequency |-> r.extractedDrugs[k].frequency]],
   medicalEntities |-> r.medicalEntities]

\* C17, as claimed: an analysis run again on the same inputs gives the
\* result record the run before gave, field for field, in each of the four
\* components.
C17_EveryAnalysisDeterministic ==
  /\ [][ (Analysed /\ analyzeResume) => interactions' = interactions ]_vars
  /\ [][ (dosageResult # null /\ calcTimerFires)
           => dosageResult' = dosageResult ]_vars
  /\ [][ (results # null /\ searchResume) => results' = results ]_vars
  /\ [][ (result # null /\ processResume) => result' = result ]_vars

\* C17, amended: an analysis run again on the same inputs gives the result
\* record the run before gave, field for field, but for the confidence of
\* each extracted drug and the processingTime of a text extraction, which
\* are random numbers.
C17_DeterministicButRandomFields ==
  /\ [][ (Analysed /\ analyzeResume) => interactions' = interactions ]_vars
  /\ [][ (dosageResult # null /\ calcTimerFires)
           => dosageResult' = dosageResult ]_vars
  /\ [][ (results # null /\ searchResume) => results' = results ]_vars
  /\ [][ (result # null /\ processResume)
           => withoutRandom(result'[1]) = withoutRandom(result[1]) ]_vars

C17_Witness ==
  /\ result # null
  /\ isProcessing
  /\ textAwaits = <<result[1].originalText>>
  /\ Len(result[1].extractedDrugs) >= 1
  /\ result[1].extractedDrugs[1].confidence = 99
  /\ result[1].processingTime = 219

\* C21: an analysis is requested on the drug list of that moment, and the
\* findings written when it completes are the matcher's result on that
\* list, whatever was added or removed while it was suspended.
C21_FindingsOfRequestedList ==
  /\ [][ clickAnalyze => pending' = Append(pending, drugs) ]_vars
  /\ [][ (pending # <<>> /\ ~isAnalyzing')
           => interactions' = checkAllPairs(Head(pending)).found ]_vars

C21_Witness ==
  /\ ~isAnalyzing
  /\ toast = "Interactions Found"
  /\ interactions # <<>>
  /\ checkAllPairs(drugs).found # interactions

\* C22: addDrug, whether it accepts or rejects the form, leaves
\* interactions, isAnalyzing and the suspended analyses as they were, and
\* touches the drug list and the form only when it accepts.
C22_AddKeepsFindings ==
  /\ [][ addDrug => UNCHANGED <<interactions, isAnalyzing, pending>> ]_vars
  /\ [][ addDrugRejected => UNCHANGED <<drugs, newDrug>> ]_vars

C22_Witness ==
  /\ interactions # <<>>
  /\ toast = "Drug Added"
  /\ Len(drugs) = 3

\* C23: right after removeDrug, interactions is empty and isAnalyzing is
\* what it was, whether or not an entry had the id.
C23_RemoveClearsFindings ==
  [][ (\E id \in AnyIds : removeDrug(id))
        => (interactions' = <<>> /\ UNCHANGED isAnalyzing) ]_vars

C23_Witness ==
  /\ interactions = <<>>
  /\ toast = "Interactions Found"
  /\ Len(drugs) = MaxDrugs

\* C24: the result of an accepted dosage request has the drug's pediatric
\* dose for ages below 12, its adult dose for ages 12 to 64 and its elderly
\* dose from 65 on; its age group is infant below 2, child below 12,
\* adolescent below 18, adult below 65 and elderly otherwise; its max daily
\* dose and warnings are those of the drug's table entry.
C24_DoseByAgeGroup ==
  [][ (calcTimers # <<>> /\ calcTimers' = Tail(calcTimers)) =>
        LET age == Head(calcTimers).age
            drugInfo == Head(calcTimers).drugInfo
            shown == dosageResult'[1]
        IN /\ dosageResult' # null
           /\ drugInfo \in { dosageDatabase[k] : k \in DOMAIN dosageDatabase }
           /\ age < 12 => shown.recommendedDose = drugInfo.pediatricDose
           /\ (age >= 12 /\ age <= 64)
                => shown.recommendedDose = drugInfo.adultDose
           /\ age >= 65 => shown.recommendedDose = drugInfo.elderlyDose
           /\ toLowerCase(shown.ageGroup) =
                (IF age < 2 THEN infant
                 ELSE IF age < 12 THEN child
                 ELSE IF age < 18 THEN adolescent
                 ELSE IF age < 65 THEN adult
                 ELSE elderly)
           /\ shown.maxDailyDose = drugInfo.maxDaily
           /\ shown.warnings = drugInfo.warnings ]_vars

C24_Witness ==
  /\ dosageResult # null
  /\ patientData.age = <<"1", "2">>
  /\ toLowerCase(dosageResult[1].ageGroup) = adolescent
  /\ dosageResult[1].recommendedDose = "500-1000 mg twice daily"

\* C25: while the form is as resetCalculator leaves it, so that no
\* calculation can have been accepted since, no dosage result is on
\* display.
C25_ResetResultStaysNull ==
  patientData = emptyPatient => dosageResult = null

\* The frequency the loop body gives a match.
frequencyOf(m) == orElse(orElse(m.times, m.code), undefined)

\* C26: in an extraction result no two drugs have the same name and
\* dosage and no entity appears twice; a drug has the frequency of the
\* first match of the text with its name and dosage; names and entities
\* are in lower case.
C26_NoDuplicatesFirstKept ==
  result # null =>
    LET found == result[1].extractedDrugs
        entities == result[1].medicalEntities
        matches == drugMatches(result[1].originalText, 1)
        ofDrug(d) == { k \in 1..Len(matches) :
                         /\ toLowerCase(matches[k].name) = d.name
                         /\ matches[k].dosage = d.dosage }
    IN /\ \A i, j \in 1..Len(found) :
            (found[i].name = found[j].name
               /\ found[i].dosage = found[j].dosage) => i = j
       /\ \A i, j \in 1..Len(entities) :
            entities[i] = entities[j] => i = j
       /\ \A i \in 1..Len(found) :
            /\ found[i].name = toLowerCase(found[i].name)
            /\ ofDrug(found[i]) # {}
            /\ LET first == CHOOSE k \in ofDrug(found[i]) :
                              \A m \in ofDrug(found[i]) : k <= m
               IN found[i].frequency = frequencyOf(matches[first])
       /\ \A i \in 1..Len(entities) :
            entities[i] = toLowerCase(entities[i])

C26_Witness ==
  /\ result # null
  /\ Len(drugMatches(result[1].originalText, 1)) = 2
  /\ Len(result[1].extractedDrugs) = 1
  /\ result[1].extractedDrugs[1].frequency = <<"d","a","i","l","y">>

\* The number of iterations the while loop over an entity pattern makes
\* with a match.
RECURSIVE entityMatches(_, _, _)
entityMatches(text, from, alts) ==
  LET p == nextWord(text, from, alts)
  IN IF p = 0 THEN 0
     ELSE 1 + entityMatches(text, p + Len(alts[firstWord(text, p, alts)]),
                            alts)

\* C27: every match of the drug pattern and of the entity patterns in the
\* text ends after the position it starts at and not beyond the end of the
\* text, so the scan position advances on every iteration, and the loop
\* over each pattern makes no more iterations than the text has
\* characters.
C27_ScanAdvances ==
  LET words == <<DrugWords, EntityWords1, EntityWords2>>
  IN /\ \A w \in 1..Len(words) : \A k \in 1..Len(words[w]) :
          Len(words[w][k]) >= 1
     /\ \A p \in 1..Len(inputText) :
          LET n == firstWord(inputText, p, DrugWords)
          IN n # 0 =>
               /\ drugMatch(inputText, p, n).end > p
               /\ drugMatch(inputText, p, n).end <= Len(inputText) + 1
     /\ \A p \in 1..Len(inputText) : \A w \in 2..Len(words) :
          LET n == firstWord(inputText, p, words[w])
          IN n # 0 => p + Len(words[w][n]) <= Len(inputText) + 1
     /\ Len(drugMatches(inputText, 1)) <= Len(inputText)
     /\ \A w \in 2..Len(words) :
          entityMatches(inputText, 1, words[w]) <= Len(inputText)

C27_Witness ==
  /\ result # null
  /\ result[1].originalText = inputText
  /\ Len(drugMatches(inputText, 1)) = 1
  /\ Len(result[1].medicalEntities) = 2
  /\ ~isProcessing

\* C28: analyzeText starts processing when the trimmed text is not empty
\* and the text has at least 10 characters, and otherwise raises a
\* validation toast and leaves result and isProcessing as they were; once
\* processing has started, isProcessing becomes false again.
C28_ValidatesThenCompletes ==
  /\ [][ (trim(inputText) # <<>> /\ Len(inputText) >= 10
            /\ clickAnalyzeText)
         => (isProcessing' /\ textAwaits' = Append(textAwaits, inputText))
     ]_vars
  /\ [][ (~(trim(inputText) # <<>> /\ Len(inputText) >= 10)
            /\ analyzeText)
         => /\ UNCHANGED <<result, isProcessing, textAwaits>>
            /\ toast' \in {"No Text Provided", "Text Too Short"} ]_vars
  /\ [](isProcessing => textAwaits # <<>>)
  /\ isProcessing ~> ~isProcessing

C28_Witness ==
  /\ result # null
  /\ Len(result[1].originalText) = 10
  /\ Len(trim(result[1].originalText)) = 9
  /\ ~isProcessing
  /\ toast = "Analysis Complete"

====
